---- MODULE Spec2Model ----
(***************************************************************************)
(* Muse: image -> story -> speech / co-author chat.                        *)
(*                                                                         *)
(* The specifications of this module:                                      *)
(*   SvcSpec    the three service functions of services/geminiService.ts   *)
(*              and the upload component's processFile, each applied to    *)
(*              inputs and endpoint responses drawn from bounded sets;     *)
(*   Spec       the App and ChatInterface components of App.tsx as an      *)
(*              event-driven state machine: user events, file reads and    *)
(*              settling endpoint calls interleave, one handler at a time; *)
(*   AudioSpec, ChatSpec   Spec restricted to image selection with         *)
(*              read-aloud, and with the chat;                             *)
(*   StoryLiveSpec   image selection alone, its story calls settling.      *)
(*                                                                         *)
(* Strings that the code inspects character by character (media types,     *)
(* data URLs) are sequences of one-character strings.                      *)
(***************************************************************************)
EXTENDS Integers, Sequences, FiniteSets, Bags, TLC

\* --------------------------------------------------------------- bounds
MaxSub == 2          \* longest media subtype drawn in SvcSpec
MaxParts == 2        \* most parts in a speech response's first candidate
MaxFiles == 2        \* files the user picks or drops in one App session
MaxSpeech == 2       \* generateSpeech calls in flight at once
MaxSources == 3      \* audio sources created in one App session
MaxSends == 2        \* accepted chat sends in one App session
MaxClock == 1        \* the clock runs from StartClock to StartClock + MaxClock
StartClock == 8      \* Date.now() when the session starts (any value past the greeting's id)

\* ------------------------------------------------------------- strings
Undefined == "<undefined>"       \* JavaScript's undefined, where a string may be absent

Falsy(s) == s = Undefined \/ s = ""

RECURSIVE Concat(_)
Concat(ss) == IF ss = <<>> THEN <<>> ELSE Head(ss) \o Concat(Tail(ss))

StartsWith(s, p) == Len(s) >= Len(p) /\ SubSeq(s, 1, Len(p)) = p

Drop(s, n) == SubSeq(s, n + 1, Len(s))

SeqsUpTo(S, n) == UNION {[1..k -> S] : k \in 0..n}

\* the literals of a data URL
DataColon == <<"d", "a", "t", "a", ":">>
ImageSlash == <<"i", "m", "a", "g", "e", "/">>
TextSlash == <<"t", "e", "x", "t", "/">>
Base64Comma == <<";", "b", "a", "s", "e", "6", "4", ",">>

\* the characters media subtypes are drawn from: letters, a digit and the
\* underscore are \w; '+', '-' and '.' (image/svg+xml, image/x-icon,
\* image/vnd.microsoft.icon) are not
SubtypeChars == {"p", "g", "4", "_", "+", "-", "."}
WordChars == {"p", "g", "4", "_", "d", "a", "t", "i", "m", "e", "b", "s", "6", "x", "A", "Q"}

Subtypes == SeqsUpTo(SubtypeChars, MaxSub) \ {<<>>}
Payloads == {<<"A">>, <<"Q", "/", "+", "A", "=">>}

\* a File: its media type (file.type) and the base64 of its bytes
Files == [type : {p \o s : p \in {ImageSlash, TextSlash}, s \in Subtypes}, payload : Payloads]

\* -------------------------------------------------- components/ImageUpload
\* processFile's validation: file.type.startsWith('image/')
Accepts(file) == StartsWith(file.type, ImageSlash)

\* FileReader.readAsDataURL: "data:" + type + ";base64," + base64 of the bytes
readAsDataURL(file) == Concat(<<DataColon, file.type, Base64Comma, file.payload>>)

\* ------------------------------------------------ services/geminiService
\* the number of leading \w characters of s
RECURSIVE WordRun(_)
WordRun(s) == IF s # <<>> /\ Head(s) \in WordChars THEN 1 + WordRun(Tail(s)) ELSE 0

\* base64Image.replace(/^data:image\/\w+;base64,/, ""): \w+ can only end where
\* ';' follows, so the one candidate match is the longest run of \w
StripWordHeader(s) ==
    IF StartsWith(s, DataColon \o ImageSlash)
    THEN LET rest == Drop(s, Len(DataColon) + Len(ImageSlash))
             k == WordRun(rest)
         IN IF k >= 1 /\ StartsWith(Drop(rest, k), Base64Comma)
            THEN Drop(Drop(rest, k), Len(Base64Comma))
            ELSE s
    ELSE s

cleanBase64(base64Image) == StripWordHeader(base64Image)

\* the inlineData part of the request generateStoryFromImage sends
StoryRequest(base64Image, mimeType) == [mimeType |-> mimeType, data |-> cleanBase64(base64Image)]

StoryFallback == "I couldn't generate a story at this time."
ReadTheStars == "Sorry, I was unable to read the stars for this image. Please try again."
Apology == "I'm having trouble connecting to the muse right now."

\* what a call does in the end: return a value, or throw
Return(v) == [kind |-> "return", value |-> v]
Throw == [kind |-> "throw", value |-> Undefined]

\* a generateContent response of the story endpoint: the call fails, or it
\* carries a text that may be absent or empty
StoryTexts == {"Once upon a time", "The fog lay low"}
StoryResponses == [fails : BOOLEAN, text : {Undefined, ""} \cup StoryTexts]

\* return response.text || "I couldn't generate a story at this time."
StoryTextOrFallback(text) == IF Falsy(text) THEN StoryFallback ELSE text

\* a slip: response.text is returned without `|| fallback`
generateStoryNoFallback(resp) == IF resp.fails THEN Throw ELSE Return(resp.text)

generateStoryFromImage(resp) ==
    IF resp.fails THEN Throw ELSE Return(StoryTextOrFallback(resp.text))

\* a part of a speech response: text, or inlineData with its data
TextPart == [text |-> "ok", data |-> Undefined]
AudioPart(d) == [text |-> Undefined, data |-> d]
GoodAudio == "UklGRg=="
BadAudio == "%%%"
SpeechParts == {TextPart, AudioPart(""), AudioPart(GoodAudio), AudioPart(BadAudio)}

\* a response of the speech endpoint: the call fails, or it carries candidates
\* (none when candidates is absent or empty), the first with its parts (none
\* when content or parts is absent or empty)
SpeechResponses == [fails : BOOLEAN, candidates : SeqsUpTo([parts : SeqsUpTo(SpeechParts, MaxParts)], 1)]

\* response.candidates?.[0]?.content?.parts?.[0]?.inlineData?.data
FirstPartData(resp) ==
    IF resp.candidates = <<>> THEN Undefined
    ELSE IF resp.candidates[1].parts = <<>> THEN Undefined
    ELSE resp.candidates[1].parts[1].data

SampleRate == 24000
NullBuffer == [of |-> Undefined, pcm |-> Undefined, sampleRate |-> 0]

\* decodeBase64 then decodeAudioData at 24 kHz; a payload that does not decode
\* throws.  `of` remembers the text the buffer was synthesised for.
Decodes(d) == d = GoodAudio
decodeAudio(text, d) == [of |-> text, pcm |-> d, sampleRate |-> SampleRate]

generateSpeech(text, resp) ==
    IF resp.fails THEN Throw
    ELSE LET base64Audio == FirstPartData(resp)
         IN IF Falsy(base64Audio) THEN Return(NullBuffer)
            ELSE IF Decodes(base64Audio) THEN Return(decodeAudio(text, base64Audio))
            ELSE Throw

\* the conversational endpoint: ai.chats.create throws or not, chat.sendMessage
\* rejects or resolves with a text that may be absent
ChatReplies == {Undefined, "Perhaps a storm."}
ChatResponses == [createFails : BOOLEAN, sendFails : BOOLEAN, text : ChatReplies]

\* a slip: the catch block logs and rethrows, as the other two services do
ChatCatchRethrows == Throw

\* the catch block of sendChatMessage
ChatCatch == Return(Apology)

sendChatMessage(resp) ==
    IF resp.createFails \/ resp.sendFails THEN ChatCatch ELSE Return(resp.text)

\* ------------------------------------------------------------ variables
VARIABLES
    svc,            \* SvcSpec: the service call being made, its inputs and its outcome
    image,          \* App: the data URL of the selected image, NoImage when null
    imageRead,      \* history: the id of the read that selected the image, 0 when null
    mimeType,       \* App: the selected image's media type
    story,          \* App
    isGenerating,   \* App
    audioBuffer,    \* App: NullBuffer when null
    isPlaying,      \* App
    sourceNodeRef,  \* App: the index in sources of sourceNodeRef.current, 0 when null
    sources,        \* every AudioBufferSourceNode created so far: "playing", "stopped"
                    \* (stop() called, its onended still to fire) or "ended"
    reads,          \* FileReader reads in flight (ImageUpload.processFile)
    storyCalls,     \* generateStoryFromImage calls in flight, with the request each sent
    speechCalls,    \* generateSpeech calls in flight: a bag of their input texts
    messages,       \* ChatInterface
    input,          \* ChatInterface
    isLoading,      \* ChatInterface
    chatCalls,      \* sendChatMessage calls in flight of the mounted ChatInterface
    clock,          \* Date.now()
    nFiles,         \* files picked or dropped so far
    nSends          \* chat sends accepted so far

appVars == <<image, imageRead, mimeType, story, isGenerating, audioBuffer, isPlaying, sourceNodeRef,
             sources, reads, storyCalls, speechCalls, messages, input, isLoading,
             chatCalls, clock, nFiles, nSends>>
vars == <<svc, appVars>>

\* --------------------------------------------------------- ChatInterface
\* Number.prototype.toString: the decimal digits of n
RECURSIVE toString(_)
toString(n) == IF n < 10 THEN <<n>> ELSE Append(toString(n \div 10), n % 10)

\* a text is the concatenation of its pieces
GreetingText == <<"Hello! I am your co-author.">>
Greeting == [id |-> <<1>>, role |-> "model", text |-> GreetingText]

\* what the user may type, or clear the field to
Inputs == {"", "Who?"}
\* !input.trim()
Blank(s) == s \in {"", " "}

\* `Context: The story so far is: "${initialContext}". \n\n User Question: ${input}`
Grounded(initialContext, in) ==
    <<"Context: The story so far is: \"", initialContext, "\". \n\n User Question: ", in>>

\* a slip: the story is prepended whenever there is one, whatever the turn
AnyInteraction(msgs, initialContext) == ~Falsy(initialContext)

\* messages.length === 1 && initialContext
FirstInteraction(msgs, initialContext) == Len(msgs) = 1 /\ ~Falsy(initialContext)

finalInput(msgs, initialContext, in) ==
    IF FirstInteraction(msgs, initialContext) THEN Grounded(initialContext, in) ELSE <<in>>

\* messages.map(m => ({role: m.role, parts: [{text: m.text}]}))
apiHistory(msgs) == [i \in 1..Len(msgs) |-> [role |-> msgs[i].role, text |-> msgs[i].text]]

\* a slip: a send is refused only for blank input, also while one is in flight
SendRefusedBlankOnly == Blank(input)

\* if (!input.trim() || isLoading) return
SendRefused == Blank(input) \/ isLoading

\* the mount state of a ChatInterface
ChatMount ==
    /\ messages' = <<Greeting>>
    /\ input' = ""
    /\ isLoading' = FALSE
    /\ chatCalls' = {}

\* ------------------------------------------------------------------ App
NoImage == <<>>

\* the files of an App session: two the upload accepts, one it refuses
AppFiles == {f \in Files : f.payload = <<"A">> /\ f.type \in {ImageSlash \o <<"p", "g">>, ImageSlash \o <<"p", "+">>, TextSlash \o <<"p", "g">>}}

\* the endpoints' answers in an App session: a failed call, a response without
\* the text or audio asked for, a response with it
AppStoryResponses ==
    {[fails |-> TRUE, text |-> Undefined],
     [fails |-> FALSE, text |-> Undefined],
     [fails |-> FALSE, text |-> "Once upon a time"]}

AppChatResponses ==
    {[createFails |-> FALSE, sendFails |-> TRUE, text |-> Undefined],
     [createFails |-> FALSE, sendFails |-> FALSE, text |-> "Perhaps a storm."]}

AppSpeechResponses ==
    {[fails |-> TRUE, candidates |-> <<>>],
     [fails |-> FALSE, candidates |-> <<>>],
     [fails |-> FALSE, candidates |-> <<[parts |-> <<AudioPart(GoodAudio)>>]>>]}

\* the editor layout (image chosen) shows the reset and read-aloud buttons and
\* the ChatInterface; otherwise the ImageUpload is shown
EditorShown == image # NoImage

Playing == {i \in 1..Len(sources) : sources[i] = "playing"}

\* const stopAudio = () => {...}
stopAudio ==
    /\ sources' = IF sourceNodeRef # 0 /\ sources[sourceNodeRef] = "playing"
                  THEN [sources EXCEPT ![sourceNodeRef] = "stopped"]
                  ELSE sources
    /\ sourceNodeRef' = 0
    /\ isPlaying' = FALSE

\* const playBuffer = (buffer) => {...}: a new source is created, kept in
\* sourceNodeRef and started; the audio context exists from the mount effect on
playBuffer ==
    /\ sources' = Append(sources, "playing")
    /\ sourceNodeRef' = Len(sources) + 1
    /\ isPlaying' = TRUE

Init ==
    /\ svc = [fn |-> "idle"]
    /\ image = NoImage
    /\ imageRead = 0
    /\ mimeType = <<>>
    /\ story = ""
    /\ isGenerating = FALSE
    /\ audioBuffer = NullBuffer
    /\ isPlaying = FALSE
    /\ sourceNodeRef = 0
    /\ sources = <<>>
    /\ reads = {}
    /\ storyCalls = {}
    /\ speechCalls = EmptyBag
    /\ messages = <<Greeting>>
    /\ input = ""
    /\ isLoading = FALSE
    /\ chatCalls = {}
    /\ clock = StartClock
    /\ nFiles = 0
    /\ nSends = 0

\* ---------------------------------------------------- App: the handlers
chatVars == <<messages, input, isLoading, chatCalls, nSends>>
audioVars == <<audioBuffer, isPlaying, sourceNodeRef, sources, speechCalls>>

\* ImageUpload.processFile(file), from the file input or a drop: a file that is
\* no image is refused with an alert, an image starts a FileReader read
processFile(file) ==
    /\ ~EditorShown
    /\ nFiles < MaxFiles
    /\ nFiles' = nFiles + 1
    /\ reads' = IF Accepts(file) THEN reads \cup {[id |-> nFiles + 1, file |-> file]} ELSE reads
    /\ UNCHANGED <<svc, image, imageRead, mimeType, story, isGenerating, audioVars, storyCalls,
                   messages, input, isLoading, chatCalls, clock, nSends>>

\* handleImageSelected(base64, type) up to its await: the call to
\* generateStoryFromImage is issued with the request built from base64 and type.
\* The ChatInterface mounts when the editor layout replaces the upload.
handleImageSelected(id, base64, type) ==
    /\ image' = base64
    /\ imageRead' = id
    /\ mimeType' = type
    /\ story' = ""
    /\ audioBuffer' = NullBuffer
    /\ isGenerating' = TRUE
    /\ storyCalls' = storyCalls \cup {[id |-> id, request |-> StoryRequest(base64, type)]}
    /\ IF EditorShown THEN UNCHANGED <<messages, input, isLoading, chatCalls>> ELSE ChatMount

\* reader.onloadend: the read of processFile completes and calls onImageSelected
ReadEnds(r) ==
    /\ r \in reads
    /\ reads' = reads \ {r}
    /\ handleImageSelected(r.id, readAsDataURL(r.file), r.file.type)
    /\ UNCHANGED <<svc, isPlaying, sourceNodeRef, sources, speechCalls, clock, nFiles, nSends>>

\* a slip: the catch block sets no story
settledStoryNoCatch(out) == IF out.kind = "return" THEN out.value ELSE ""

\* try { setStory(await generateStoryFromImage(...)) } catch { setStory("Sorry, ...") }
settledStory(out) == IF out.kind = "return" THEN out.value ELSE ReadTheStars

\* the rest of handleImageSelected, when generateStoryFromImage settles:
\* setStory(generatedStory), or the catch's message, and finally setIsGenerating(false)
StorySettles(c, resp) ==
    /\ c \in storyCalls
    /\ storyCalls' = storyCalls \ {c}
    /\ story' = settledStory(generateStoryFromImage(resp))
    /\ isGenerating' = FALSE
    /\ UNCHANGED <<svc, image, imageRead, mimeType, audioVars, reads, chatVars, clock, nFiles>>

\* handleReset, the button over the image: the ChatInterface unmounts with the
\* editor layout, and what its calls in flight set afterwards is lost with it
handleReset ==
    /\ EditorShown
    /\ stopAudio
    /\ image' = NoImage
    /\ imageRead' = 0
    /\ story' = ""
    /\ audioBuffer' = NullBuffer
    /\ ChatMount
    /\ UNCHANGED <<svc, mimeType, isGenerating, reads, storyCalls, speechCalls, clock,
                   nFiles, nSends>>

\* handleReadAloud up to its await; the button is disabled={isGenerating || !story}
handleReadAloud ==
    /\ EditorShown
    /\ ~isGenerating
    /\ ~Falsy(story)
    /\ IF isPlaying
       THEN stopAudio /\ UNCHANGED <<audioBuffer, speechCalls>>
       ELSE IF audioBuffer # NullBuffer
       THEN Len(sources) < MaxSources /\ playBuffer /\ UNCHANGED <<audioBuffer, speechCalls>>
       ELSE /\ BagCardinality(speechCalls) < MaxSpeech
            /\ speechCalls' = speechCalls (+) SetToBag({story})
            /\ UNCHANGED <<audioBuffer, isPlaying, sourceNodeRef, sources>>
    /\ UNCHANGED <<svc, image, imageRead, mimeType, story, isGenerating, reads, storyCalls, chatVars,
                   clock, nFiles>>

\* the rest of handleReadAloud, when generateSpeech(text) settles:
\* if (buffer) { setAudioBuffer(buffer); playBuffer(buffer) }; a throw is logged
SpeechSettles(text, resp) ==
    /\ BagIn(text, speechCalls)
    /\ speechCalls' = speechCalls (-) SetToBag({text})
    /\ LET out == generateSpeech(text, resp)
       IN IF out.kind = "return" /\ out.value # NullBuffer
          THEN /\ Len(sources) < MaxSources
               /\ audioBuffer' = out.value
               /\ playBuffer
          ELSE UNCHANGED <<audioBuffer, isPlaying, sourceNodeRef, sources>>
    /\ UNCHANGED <<svc, image, imageRead, mimeType, story, isGenerating, reads, storyCalls, chatVars,
                   clock, nFiles>>

\* source.onended = () => setIsPlaying(false): fires when source i has played
\* to its end, and after a stop()
SourceEnded(i) ==
    /\ i \in 1..Len(sources)
    /\ sources[i] \in {"playing", "stopped"}
    /\ sources' = [sources EXCEPT ![i] = "ended"]
    /\ isPlaying' = FALSE
    /\ UNCHANGED <<svc, image, imageRead, mimeType, story, isGenerating, audioBuffer, sourceNodeRef,
                   speechCalls, reads, storyCalls, chatVars, clock, nFiles>>

\* ------------------------------------------- ChatInterface: the handlers
\* onChange of the input field: setInput(e.target.value)
TypeInput(v) ==
    /\ EditorShown
    /\ v # input
    /\ input' = v
    /\ UNCHANGED <<svc, image, imageRead, mimeType, story, isGenerating, audioVars, reads, storyCalls,
                   messages, isLoading, chatCalls, clock, nFiles, nSends>>

\* handleSend up to its await (the send button or Enter).  The call in flight
\* keeps what the handler closed over (messages, input, initialContext = story)
\* and what it transmitted (history, message).
handleSend ==
    /\ EditorShown
    /\ IF SendRefused
       THEN UNCHANGED chatVars
       ELSE /\ nSends < MaxSends
            /\ nSends' = nSends + 1
            /\ messages' = Append(messages, [id |-> toString(clock), role |-> "user", text |-> <<input>>])
            /\ input' = ""
            /\ isLoading' = TRUE
            /\ chatCalls' = chatCalls \cup
                   {[n |-> nSends + 1,
                     messages |-> messages, input |-> input, initialContext |-> story,
                     history |-> apiHistory(messages),
                     message |-> finalInput(messages, story, input)]}
    /\ UNCHANGED <<svc, image, imageRead, mimeType, story, isGenerating, audioVars, reads, storyCalls,
                   clock, nFiles>>

\* the rest of handleSend, when sendChatMessage settles: the reply is appended
\* with id Date.now() + 1; a throw is swallowed; finally setIsLoading(false)
ChatSettles(c, resp) ==
    /\ c \in chatCalls
    /\ chatCalls' = chatCalls \ {c}
    /\ LET out == sendChatMessage(resp)
       IN messages' = IF out.kind = "return"
                      THEN Append(messages, [id |-> toString(clock + 1), role |-> "model", text |-> <<out.value>>])
                      ELSE messages
    /\ isLoading' = FALSE
    /\ UNCHANGED <<svc, image, imageRead, mimeType, story, isGenerating, audioVars, reads, storyCalls,
                   input, clock, nFiles, nSends>>

\* time passes
Tick ==
    /\ clock < StartClock + MaxClock
    /\ clock' = clock + 1
    /\ UNCHANGED <<svc, image, imageRead, mimeType, story, isGenerating, audioVars, reads, storyCalls,
                   chatVars, nFiles>>

\* The handlers that select, read and reset images and settle story calls
ImageNext ==
    \/ \E file \in AppFiles : processFile(file)
    \/ \E r \in reads : ReadEnds(r)
    \/ \E c \in storyCalls, resp \in AppStoryResponses : StorySettles(c, resp)
    \/ handleReset

\* Read-aloud: no handler below reads or writes a variable of the chat
AudioNext ==
    \/ ImageNext
    \/ handleReadAloud
    \/ \E text \in DOMAIN speechCalls, resp \in AppSpeechResponses : SpeechSettles(text, resp)
    \/ \E i \in 1..Len(sources) : SourceEnded(i)

\* The chat: no handler below reads or writes a variable of read-aloud
ChatNext ==
    \/ ImageNext
    \/ \E v \in Inputs : TypeInput(v)
    \/ handleSend
    \/ \E c \in chatCalls, resp \in AppChatResponses : ChatSettles(c, resp)
    \/ Tick

Next == AudioNext \/ ChatNext

\* The whole session.  Read-aloud and the chat share only image and story,
\* which neither writes, so every behaviour of Spec restricted to the
\* variables of one of them is a behaviour of AudioSpec or of ChatSpec.
Spec == Init /\ [][Next]_vars
AudioSpec == Init /\ [][AudioNext]_vars
ChatSpec == Init /\ [][ChatNext]_vars

\* ------------------------------------------ SvcSpec: the service functions
SpeechTexts == StoryTexts \cup {StoryFallback, ReadTheStars}
ChatHistories == {<<>>, apiHistory(<<Greeting>>)}
ChatMessages == {finalInput(<<Greeting>>, s, in) : s \in {""} \cup StoryTexts, in \in Inputs \ {"", " "}}

\* a file reaches processFile; an accepted one is read and handed to
\* generateStoryFromImage, which sends its request
SvcUpload(file) ==
    /\ svc.fn = "idle"
    /\ svc' = IF Accepts(file)
              THEN [fn |-> "generateStoryFromImage", phase |-> "sent", file |-> file,
                    request |-> StoryRequest(readAsDataURL(file), file.type)]
              ELSE [fn |-> "processFile", phase |-> "done", file |-> file]
    /\ UNCHANGED appVars

SvcStoryReply(resp) ==
    /\ svc.fn = "generateStoryFromImage" /\ svc.phase = "sent"
    /\ svc' = [svc EXCEPT !.phase = "done"] @@ [response |-> resp, out |-> generateStoryFromImage(resp)]
    /\ UNCHANGED appVars

SvcSpeech(text) ==
    /\ svc.fn = "idle"
    /\ svc' = [fn |-> "generateSpeech", phase |-> "sent", text |-> text]
    /\ UNCHANGED appVars

SvcSpeechReply(resp) ==
    /\ svc.fn = "generateSpeech" /\ svc.phase = "sent"
    /\ svc' = [svc EXCEPT !.phase = "done"] @@ [response |-> resp, out |-> generateSpeech(svc.text, resp)]
    /\ UNCHANGED appVars

SvcChat(history, newMessage) ==
    /\ svc.fn = "idle"
    /\ svc' = [fn |-> "sendChatMessage", phase |-> "sent", history |-> history, message |-> newMessage]
    /\ UNCHANGED appVars

SvcChatReply(resp) ==
    /\ svc.fn = "sendChatMessage" /\ svc.phase = "sent"
    /\ svc' = [svc EXCEPT !.phase = "done"] @@ [response |-> resp, out |-> sendChatMessage(resp)]
    /\ UNCHANGED appVars

\* the caller has the outcome; the next call can be made
SvcDone ==
    /\ svc.fn # "idle" /\ svc.phase = "done"
    /\ svc' = [fn |-> "idle"]
    /\ UNCHANGED appVars

SvcNext ==
    \/ \E file \in Files : SvcUpload(file)
    \/ \E resp \in StoryResponses : SvcStoryReply(resp)
    \/ \E text \in SpeechTexts : SvcSpeech(text)
    \/ \E resp \in SpeechResponses : SvcSpeechReply(resp)
    \/ \E h \in ChatHistories, m \in ChatMessages : SvcChat(h, m)
    \/ \E resp \in ChatResponses : SvcChatReply(resp)
    \/ SvcDone

SvcSpec == Init /\ [][SvcNext]_vars

\* ================================================================ claims
\* services/geminiService.ts, under SvcSpec
StoryCallDone == svc.fn = "generateStoryFromImage" /\ svc.phase = "done"
SpeechCallDone == svc.fn = "generateSpeech" /\ svc.phase = "done"
ChatCallDone == svc.fn = "sendChatMessage" /\ svc.phase = "done"
ChatFailed(resp) == resp.createFails \/ resp.sendFails

\* C1 (as claimed): whenever audioBuffer is non-null it was produced by a
\* generateSpeech call whose input text is the current story.
C1_BufferIsOfCurrentStory == audioBuffer # NullBuffer => audioBuffer.of = story

\* C2 (as claimed): at most one audio source is playing at any time.
C2_AtMostOneSourcePlaying == Cardinality(Playing) <= 1

\* the turn of a call in flight is the first user turn: the transcript the
\* handler closed over holds no user message
FirstUserTurn(c) == \A i \in 1..Len(c.messages) : c.messages[i].role # "user"

\* C3 (as claimed): with a non-empty story, the transmitted message is the
\* grounding clause exactly when the transmitted history is empty, and the
\* user's message unmodified otherwise.
C3_GroundedIffHistoryEmpty ==
    \A c \in chatCalls : ~Falsy(c.initialContext) =>
        IF c.history = <<>>
        THEN c.message = Grounded(c.initialContext, c.input)
        ELSE c.message = <<c.input>>

\* C3 (amended): with a non-empty story, the transmitted message is the
\* grounding clause exactly on the first user turn, when the transmitted
\* history holds the greeting alone (it is never empty), and the user's
\* message unmodified on every later turn.
C3_GroundedIffFirstUserTurn ==
    \A c \in chatCalls : ~Falsy(c.initialContext) =>
        /\ c.history # <<>>
        /\ FirstUserTurn(c) <=> c.history = <<[role |-> "model", text |-> GreetingText]>>
        /\ IF FirstUserTurn(c)
           THEN c.message = Grounded(c.initialContext, c.input)
           ELSE c.message = <<c.input>>

\* C3 witness: a later turn of a chat about a story goes out unmodified, after
\* a first turn that went out
C3_LaterTurnSent ==
    \E c \in chatCalls :
        /\ ~Falsy(c.initialContext)
        /\ Len(c.history) = 3
        /\ c.message = <<c.input>>

\* C4: sendChatMessage never throws; when creating the chat or sending fails
\* it returns the fixed apology.
C4_ChatNeverThrows ==
    ChatCallDone =>
        /\ svc.out.kind = "return"
        /\ ChatFailed(svc.response) => svc.out.value = Apology

\* C4 witness: a call whose send failed has returned
C4_FailedSendReturned ==
    ChatCallDone /\ svc.response.sendFails /\ ~svc.response.createFails /\ svc.out = Return(Apology)

\* the transcript holds what call c closed over, then c's user message
UserAppended(c, msgs) ==
    /\ Len(msgs) >= Len(c.messages) + 1
    /\ SubSeq(msgs, 1, Len(c.messages)) = c.messages
    /\ msgs[Len(c.messages) + 1].role = "user"
    /\ msgs[Len(c.messages) + 1].text = <<c.input>>

\* C5: a send accepted on a transcript of N entries appends the user's message
\* before the call is issued, so that the transcript has N+1 entries while the
\* call is in flight, and the model's entry when the call settles, so that the
\* transcript then has exactly N+2 entries: the N, the user's, the model's.
C5_SendThenReceive ==
    /\ [](\A c \in chatCalls : UserAppended(c, messages) /\ Len(messages) = Len(c.messages) + 1)
    /\ [][\A c \in chatCalls : (c \notin chatCalls' /\ EditorShown') =>
              /\ Len(messages') = Len(c.messages) + 2
              /\ UserAppended(c, messages')
              /\ messages'[Len(messages')].role = "model"
              /\ messages' = Append(messages, messages'[Len(messages')])]_vars

\* C5 witness: two turns have been sent and answered, the second by the apology
C5_TwoTurnsDone ==
    /\ chatCalls = {} /\ ~isLoading
    /\ Len(messages) = 5
    /\ [i \in 1..5 |-> messages[i].role] = <<"model", "user", "model", "user", "model">>
    /\ messages[5].text = <<Apology>>

StoryOutcomes == StoryTexts \cup {StoryFallback, ReadTheStars}

\* C6: while the story calls in flight settle (weak fairness), a generation in
\* progress leads to isGenerating = FALSE with a non-empty story, and whenever
\* a generation ends the story is the generated text or a fixed message.
C6_GenerationEndsInStory ==
    /\ isGenerating ~> (~isGenerating /\ ~Falsy(story))
    /\ [][(isGenerating /\ ~isGenerating') => story' \in StoryOutcomes]_vars
    /\ [](isGenerating => storyCalls # {})

\* C6 witness: a generation whose call failed has ended in the fixed message
C6_EndedInFallback == EditorShown /\ ~isGenerating /\ storyCalls = {} /\ story = ReadTheStars

\* C7: on a response that does not fail, generateStoryFromImage returns the
\* response's text when it is non-empty and the fixed fallback otherwise,
\* never undefined or the empty string.
C7_TextOrFallback ==
    (StoryCallDone /\ ~svc.response.fails) =>
        /\ svc.out.kind = "return"
        /\ ~Falsy(svc.out.value)
        /\ svc.out.value = IF Falsy(svc.response.text) THEN StoryFallback ELSE svc.response.text

\* C7 witness: a response without text has been answered by the fallback
C7_FallbackReturned ==
    StoryCallDone /\ ~svc.response.fails /\ svc.response.text = Undefined /\ svc.out = Return(StoryFallback)

\* the inline audio payloads of a response, in the order of its parts
HasAudioPayload(resp) ==
    \E i \in 1..Len(resp.candidates) : \E j \in 1..Len(resp.candidates[i].parts) :
        ~Falsy(resp.candidates[i].parts[j].data)

\* C8 (as claimed): on a response that does not fail, generateSpeech returns
\* null exactly when no part of the response carries an inline audio payload.
C8_NullIffNoPayload ==
    (SpeechCallDone /\ ~svc.response.fails) =>
        (svc.out = Return(NullBuffer) <=> ~HasAudioPayload(svc.response))

\* C9 (as claimed): for every accepted file, the data transmitted is the file's
\* base64 without the data-URI header and the media type is the file's.
C9_HeaderStripped ==
    svc.fn = "generateStoryFromImage" =>
        /\ svc.request.data = svc.file.payload
        /\ svc.request.mimeType = svc.file.type

\* C10 (as claimed): the ids of a transcript are pairwise distinct.
C10_IdsDistinct ==
    \A i, j \in 1..Len(messages) : i # j => messages[i].id # messages[j].id

\* the call issued for the currently selected image is still in flight
CurrentCallInFlight == \E c \in storyCalls : c.id = imageRead

\* C11 (as claimed): with an image selected, isGenerating false and a story
\* shown, the story is the outcome of the call issued for that image, so that
\* call has settled; and a call issued for an earlier image, settling while
\* another image is selected, changes neither the story nor isGenerating.
C11_StoryIsOfCurrentImage ==
    /\ []((EditorShown /\ ~isGenerating /\ ~Falsy(story)) => ~CurrentCallInFlight)
    /\ [][\A c \in storyCalls : (EditorShown /\ c.id # imageRead /\ c \notin storyCalls') =>
              (story' = story /\ isGenerating' = isGenerating)]_vars

\* a text holds s as one of its pieces
TextContains(text, s) == \E k \in 1..Len(text) : text[k] = s

\* what call c transmitted, history and new message, holds s
RequestContains(c, s) ==
    \/ TextContains(c.message, s)
    \/ \E i \in 1..Len(c.history) : TextContains(c.history[i].text, s)

\* C12 (as claimed): every chat turn sent while the story is non-empty
\* transmits the story text, in the new message or in the history.
C12_RequestCarriesStory ==
    \A c \in chatCalls : ~Falsy(c.initialContext) => RequestContains(c, c.initialContext)

\* the story calls in flight settle: the endpoint call returns or fails
StoryFairness == WF_vars(\E c \in storyCalls, resp \in AppStoryResponses : StorySettles(c, resp))
StoryLiveSpec == Init /\ [][ImageNext]_vars /\ StoryFairness
====
